---- MODULE Spec2Model ----
(***************************************************************************)
(* WaterGuard backend (src/app.py): the users table, the per-client Flask  *)
(* session cookie and the six route handlers /signup, /login, /logout,     *)
(* /check-auth, /book-kit and /chat.                                       *)
(*                                                                         *)
(* A JSON string is a sequence of Unicode code points; Python's None (a    *)
(* missing key of request.json, or a JSON null) is the value None below.   *)
(* Requests of different clients are handled concurrently (the server is   *)
(* threaded); one client has one request outstanding at a time.  /signup   *)
(* takes two steps, because other requests run between its committed       *)
(* INSERT and the end of its blocking SMTP call; every other handler       *)
(* touches the shared table at most once and is one step.                  *)
(*                                                                         *)
(* Taken as given: every request body is a JSON object whose fields are    *)
(* strings or missing, sqlite3 itself does not fail, and the SMTP relay    *)
(* and the LLM may fail at any call.  The installed bcrypt is either older *)
(* than 5.0 (it hashes the first 72 bytes of a password) or not (it raises *)
(* ValueError on a longer one): bcryptStrict, fixed at start.              *)
(***************************************************************************)
EXTENDS Integers, Sequences, FiniteSets, TLC

\* ------------------------------------------------------------------ bounds
\* The salts bcrypt.gensalt() may draw.
NumSalts == 1

\* Two browsers, each with its own cookie jar.
Clients == {1, 2}

\* ------------------------------------------------------------------ values
\* Python's None: no sequence of code points.
None == <<-1>>

\* "a", "b"
Emails == {<<97>>, <<98>>}

\* "n", "m"
Names == {<<110>>, <<109>>}

\* bcrypt hashes at most this many bytes of the password.
BcryptMaxLen == 72

\* 36 times "é": 72 bytes of UTF-8.
LongPrefix == [i \in 1..36 |-> 233]

\* "p", and two passwords of 73 bytes that differ in the last byte only.
Passwords == {<<112>>, LongPrefix \o <<120>>, LongPrefix \o <<121>>}

\* bcrypt.gensalt() draws a random salt.
Salts == 1..NumSalts

\* not x, for x a string or None
Falsy(x) == x = None \/ x = <<>>

\* str.encode(): UTF-8, for code points below 2048
Utf8(cp) == IF cp < 128 THEN <<cp>> ELSE <<192 + (cp \div 64), 128 + (cp % 64)>>

RECURSIVE encode(_)
encode(s) == IF s = <<>> THEN <<>> ELSE Utf8(Head(s)) \o encode(Tail(s))

\* The encodings of the strings a request may carry as its password.
utf8 == [s \in Passwords \cup {<<>>} |-> encode(s)]

\* ------------------------------------------------------------------ bcrypt
\* The key bcrypt derives the digest from: the first 72 bytes of the password.
BcryptKey(bytes) ==
    IF Len(bytes) > BcryptMaxLen THEN SubSeq(bytes, 1, BcryptMaxLen) ELSE bytes

\* bcrypt.hashpw(bytes, salt): the salt and the digest of (salt, key); the
\* digest is taken to be collision free and is written as its preimage.
hashpw(bytes, salt) == [salt |-> salt, key |-> BcryptKey(bytes)]

\* bcrypt.checkpw(bytes, hashed): hash again with the salt of hashed, compare.
checkpw(bytes, hashed) == hashpw(bytes, hashed.salt) = hashed

\* ------------------------------------------------------------------ state
VARIABLES
    users,        \* the rows of table users
    session,      \* per client, the dict in its signed session cookie
    inflight,     \* per client, the /signup it has in flight after the INSERT
    bcryptStrict, \* the installed bcrypt rejects passwords over 72 bytes
    ev,           \* the last response sent
    created,      \* history: the (email, password) of every stored record
    auth          \* history: per client, the email of its last successful /signup
                  \* or /login with no /logout of it since, or None

vars == <<users, session, inflight, bcryptStrict, ev, created, auth>>

EmptyDict == [k \in {} |-> None]

\* Faulty variant of InSession: the test is always passed.
InSessionAlways(s) == TRUE

\* 'user' in session
InSession(s) == "user" \in DOMAIN s

Idle == [pc |-> "idle", email |-> None]

\* A response: endpoint, status, kind of body, what became of the mail.  Two
\* history fields: the client of a /logout, and whether a /check-auth came
\* right after the /logout of its own client.
NoEvent ==
    [ep |-> "none", status |-> 0, body |-> "none", mail |-> "none", client |-> 0,
     after |-> FALSE]

Init ==
    /\ users = {}
    /\ session = [c \in Clients |-> EmptyDict]
    /\ inflight = [c \in Clients |-> Idle]
    /\ bcryptStrict \in BOOLEAN
    /\ ev = NoEvent
    /\ created = {}
    /\ auth = [c \in Clients |-> None]

\* ------------------------------------------------------------------ table users
NoRow == [salt |-> 0, key |-> None]

\* Faulty variant of UniqueViolation: a table without the UNIQUE constraint.
UniqueIgnored(tbl, email) == FALSE

\* email TEXT UNIQUE: an INSERT of a taken email raises sqlite3.IntegrityError.
UniqueViolation(tbl, email) == \E r \in tbl : r.email = email

\* INSERT INTO users (name, email, password) VALUES (?, ?, ?); commit.  The
\* generated id is read by no handler and is left out of the row.
InsertRow(tbl, name, email, hashed_pw) ==
    tbl \cup {[name |-> name, email |-> email, password |-> hashed_pw]}

\* Faulty variant of SelectPassword: the SELECT without its WHERE clause.
SelectAnyPassword(tbl, email) ==
    IF tbl = {} THEN NoRow ELSE (CHOOSE r \in tbl : TRUE).password

\* SELECT password FROM users WHERE email = ?; fetchone()
SelectPassword(tbl, email) ==
    LET rows == {r \in tbl : r.email = email}
    IN  IF rows = {} THEN NoRow ELSE (CHOOSE r \in rows : TRUE).password

\* Faulty variant of AfterMailFailure: the commit placed after send_email.
RolledBack(tbl, email) == {r \in tbl : r.email # email}

\* The commit of line 102 precedes send_email: its failure rolls nothing back.
AfterMailFailure(tbl, email) == tbl

\* ------------------------------------------------------------------ session
\* session['user'] = email
SessionSet(s, email) == [k \in DOMAIN s \cup {"user"} |-> IF k = "user" THEN email ELSE s[k]]

\* Faulty variant of SessionPop: the key is not removed.
SessionKept(s) == s

\* session.pop('user', None)
SessionPop(s) == [k \in DOMAIN s \ {"user"} |-> s[k]]

\* Faulty variant of SignupSession: the session is set before send_email.
SignupSessionEarly(s, email, delivered) == SessionSet(s, email)

\* signup reaches session['user'] = email only when send_email returned.
SignupSession(s, email, delivered) == IF delivered THEN SessionSet(s, email) ELSE s

\* ------------------------------------------------------------------ requests
SignupData ==
    [name : Names \cup {None}, email : Emails \cup {None},
     password : Passwords \cup {None, <<>>}]

LoginData == [email : Emails \cup {None}, password : Passwords \cup {None, <<>>}]

\* name, phone, address and date only reach the body of the mail.
BookData == [email : Emails \cup {None}]

\* "q"
ChatData == [prompt : {None, <<>>, <<113>>}]

\* hashpw and checkpw of bcrypt 5 raise ValueError on more than 72 bytes.
TooLong(password) == bcryptStrict /\ Len(utf8[password]) > BcryptMaxLen

Response(ep, status, body, mail) ==
    [ep |-> ep, status |-> status, body |-> body, mail |-> mail, client |-> 0,
     after |-> FALSE]

\* An exception that leaves the handler: Flask answers 500 with an HTML page.
Uncaught(ep) == Response(ep, 500, "html", "none")

\* ------------------------------------------------------------------ /signup
\* Faulty variant of Invalid: the name is not checked.
InvalidNameUnchecked(data) == Falsy(data.email) \/ Falsy(data.password)

\* Lines 93-94: if not name or not email or not password
Invalid(data) == Falsy(data.name) \/ Falsy(data.email) \/ Falsy(data.password)

\* Lines 88-103: validation, hashing, INSERT and commit.  The response is
\* NoEvent when the handler goes on to the welcome mail.
signup_insert(tbl, data, salt) ==
    IF Invalid(data)
    THEN [response |-> Response("signup", 400, "message", "none"), users |-> tbl]
    ELSE IF TooLong(data.password)
    THEN [response |-> Uncaught("signup"), users |-> tbl]
    ELSE IF UniqueViolation(tbl, data.email)
    THEN [response |-> Response("signup", 409, "message", "none"), users |-> tbl]
    ELSE [response |-> NoEvent,
          users |-> InsertRow(tbl, data.name, data.email,
                              hashpw(utf8[data.password], salt))]

SignupInsert(c, data) ==
    /\ inflight[c].pc = "idle"
    /\ \E salt \in (IF Invalid(data) THEN {0} ELSE Salts) :
          \E r \in {signup_insert(users, data, salt)} :
              /\ users' = r.users
              /\ IF r.response = NoEvent
                 THEN /\ created' = created \cup
                              {[email |-> data.email, password |-> data.password]}
                      /\ inflight' = [inflight EXCEPT
                              ![c] = [pc |-> "mail", email |-> data.email]]
                      /\ UNCHANGED ev
                 ELSE /\ ev' = r.response
                      /\ UNCHANGED <<inflight, created>>
    /\ UNCHANGED <<session, bcryptStrict, auth>>

\* Lines 105-127: the welcome mail, the session, the response.
SignupMail(c, delivered) ==
    /\ inflight[c].pc = "mail"
    /\ LET email == inflight[c].email
       IN  /\ session' = [session EXCEPT ![c] = SignupSession(session[c], email, delivered)]
           /\ users' = IF delivered THEN users ELSE AfterMailFailure(users, email)
           /\ IF delivered
              THEN /\ ev' = Response("signup", 200, "message", "sent")
                   /\ auth' = [auth EXCEPT ![c] = email]
              ELSE /\ ev' = Response("signup", 500, "message", "failed")
                   /\ UNCHANGED auth
    /\ inflight' = [inflight EXCEPT ![c] = Idle]
    /\ UNCHANGED <<bcryptStrict, created>>

\* ------------------------------------------------------------------ /login
\* Lines 136-142, result and bcrypt.checkpw(password.encode(), result[0]):
\* None.encode() raises AttributeError, checkpw may raise ValueError.
verify(tbl, email, password) ==
    LET result == SelectPassword(tbl, email)
    IN  IF result = NoRow THEN "no"
        ELSE IF password = None \/ TooLong(password) THEN "raise"
        ELSE IF checkpw(utf8[password], result) THEN "yes"
        ELSE "no"

\* The response, and the email the session is given (None: session untouched).
login(tbl, data) ==
    LET v == verify(tbl, data.email, data.password)
    IN  IF v = "yes"
        THEN [response |-> Response("login", 200, "message", "none"), user |-> data.email]
        ELSE IF v = "raise"
        THEN [response |-> Uncaught("login"), user |-> None]
        ELSE [response |-> Response("login", 401, "message", "none"), user |-> None]

Login(c, data) ==
    /\ inflight[c].pc = "idle"
    /\ \E r \in {login(users, data)} :
           /\ ev' = r.response
           /\ session' = IF r.user # None
                         THEN [session EXCEPT ![c] = SessionSet(session[c], r.user)]
                         ELSE session
           /\ auth' = IF r.response.status = 200
                      THEN [auth EXCEPT ![c] = data.email]
                      ELSE auth
    /\ UNCHANGED <<users, inflight, bcryptStrict, created>>

\* ------------------------------------------------------------------ /logout
Logout(c) ==
    /\ inflight[c].pc = "idle"
    /\ session' = [session EXCEPT ![c] = SessionPop(session[c])]
    /\ ev' = [Response("logout", 200, "message", "none") EXCEPT !.client = c]
    /\ auth' = [auth EXCEPT ![c] = None]
    /\ UNCHANGED <<users, inflight, bcryptStrict, created>>

\* ------------------------------------------------------------------ /check-auth
check_auth(s) ==
    IF InSession(s)
    THEN Response("check-auth", 200, "authenticated:true", "none")
    ELSE Response("check-auth", 401, "authenticated:false", "none")

CheckAuth(c) ==
    /\ inflight[c].pc = "idle"
    /\ ev' = [check_auth(session[c]) EXCEPT
                 !.after = (ev.ep = "logout" /\ ev.client = c)]
    /\ UNCHANGED <<users, session, inflight, bcryptStrict, created, auth>>

\* ------------------------------------------------------------------ /book-kit
\* A mail to None is addressed to nobody: send_email raises.
book_kit(s, data, delivered) ==
    IF ~InSession(s)
    THEN Response("book-kit", 401, "message", "none")
    ELSE IF delivered /\ data.email # None
    THEN Response("book-kit", 200, "message", "sent")
    ELSE Response("book-kit", 500, "message", "failed")

BookKit(c, data) ==
    /\ inflight[c].pc = "idle"
    /\ \E delivered \in (IF InSession(session[c]) THEN BOOLEAN ELSE {FALSE}) :
          ev' = book_kit(session[c], data, delivered)
    /\ UNCHANGED <<users, session, inflight, bcryptStrict, created, auth>>

\* ------------------------------------------------------------------ /chat
chat(data, answered) ==
    IF Falsy(data.prompt)
    THEN Response("chat", 400, "reply", "none")
    ELSE IF answered
    THEN Response("chat", 200, "reply", "none")
    ELSE Response("chat", 500, "reply", "none")

Chat(c, data) ==
    /\ inflight[c].pc = "idle"
    /\ \E answered \in (IF Falsy(data.prompt) THEN {FALSE} ELSE BOOLEAN) :
          ev' = chat(data, answered)
    /\ UNCHANGED <<users, session, inflight, bcryptStrict, created, auth>>

Next ==
    \E c \in Clients :
        \/ \E data \in SignupData : SignupInsert(c, data)
        \/ \E delivered \in BOOLEAN : SignupMail(c, delivered)
        \/ \E data \in LoginData : Login(c, data)
        \/ Logout(c)
        \/ CheckAuth(c)
        \/ \E data \in BookData : BookKit(c, data)
        \/ \E data \in ChatData : Chat(c, data)

Spec == Init /\ [][Next]_vars

\* The same handlers on a server whose bcrypt is older than 5.0.
InitBcrypt4 == Init /\ ~bcryptStrict

SpecBcrypt4 == InitBcrypt4 /\ [][Next]_vars

\* ------------------------------------------------------------------ properties
Stored(tbl, email) == \E r \in tbl : r.email = email

Credentials(data) == [email |-> data.email, password |-> data.password]

\* C1 (as claimed): a /signup with non-empty name, email and password and an
\* email not yet stored always succeeds: the record is created, the response
\* is the success response and the session of the client holds the email.
C1_FreshSignupAlwaysSucceeds ==
    [][\A c \in Clients :
          /\ \A data \in SignupData :
                 (/\ SignupInsert(c, data)
                  /\ ~Falsy(data.name) /\ ~Falsy(data.email) /\ ~Falsy(data.password)
                  /\ ~Stored(users, data.email))
                 => Stored(users', data.email) /\ inflight'[c].pc = "mail"
          /\ \A delivered \in BOOLEAN :
                 SignupMail(c, delivered)
                 => /\ ev' = Response("signup", 200, "message", "sent")
                    /\ InSession(session'[c])
                    /\ session'[c].user = inflight[c].email]_vars

\* C2 (as claimed): a /signup whose email is already stored always fails with
\* 409 and leaves the table as it was.
C2_DuplicateSignupAlways409 ==
    [][\A c \in Clients, data \in SignupData :
          (SignupInsert(c, data) /\ Stored(users, data.email))
          => ev'.status = 409 /\ users' = users]_vars

\* C2 (amended): in every reachable state a /signup whose email is already
\* stored does not succeed and leaves the table as it was; it is answered 400
\* when the name or the password is missing or empty, ends in the uncaught
\* ValueError of bcrypt 5 when the password is over 72 bytes, and is answered
\* 409 otherwise.
C2_DuplicateSignupRejected ==
    \A data \in SignupData, salt \in Salts :
        Stored(users, data.email)
        => signup_insert(users, data, salt) =
               [users |-> users,
                response |-> IF Falsy(data.name) \/ Falsy(data.password)
                             THEN Response("signup", 400, "message", "none")
                             ELSE IF TooLong(data.password)
                             THEN Uncaught("signup")
                             ELSE Response("signup", 409, "message", "none")]

C2_Witness ==
    /\ ev = Response("signup", 409, "message", "none")
    /\ Cardinality(users) = 2

C4_WrongPasswordAlways401 ==
    [][\A c \in Clients, data \in LoginData :
          (/\ Login(c, data)
           /\ Stored(users, data.email)
           /\ data.password # None
           /\ Credentials(data) \notin created)
          => ev' = Response("login", 401, "message", "none") /\ session' = session]_vars

\* The answer of /check-auth to a client without a session.
Unauthenticated == Response("check-auth", 401, "authenticated:false", "none")

\* C5: whatever the session of a client was, once its /logout is handled a
\* /check-auth of it answers 401, authenticated false, and goes on to do so
\* until a /login or a /signup of that client succeeds.
C5_LoggedOutStaysUnauthenticated ==
    [][\A c \in Clients :
          /\ Logout(c) => check_auth(session'[c]) = Unauthenticated
          /\ (/\ check_auth(session[c]) = Unauthenticated
              /\ check_auth(session'[c]) # Unauthenticated)
             => /\ SignupMail(c, TRUE) \/ \E data \in LoginData : Login(c, data)
                /\ ev'.status = 200]_vars

\* A /check-auth answered 401 right after the /logout of the same client.
C5_Witness ==
    /\ ev = [Unauthenticated EXCEPT !.after = TRUE]
    /\ \E c \in Clients : auth[c] # None

\* C6: in every reachable state a /book-kit of a client that is not logged in
\* is answered 401, whatever its payload, and sends no mail.
C6_BookKitNeedsLogin ==
    \A c \in Clients, data \in BookData, delivered \in BOOLEAN :
        auth[c] = None
        => book_kit(session[c], data, delivered) =
               Response("book-kit", 401, "message", "none")

C6_Witness ==
    /\ ev = Response("book-kit", 401, "message", "none")
    /\ \A c \in Clients : auth[c] = None
    /\ users # {}

\* C7: rows are added by /signup only and never change or go away, and the
\* password given when a row was stored verifies in every later state.
C7_CreateThenVerify ==
    /\ [](\A g \in created : verify(users, g.email, g.password) = "yes")
    /\ [][/\ users \subseteq users'
          /\ users' # users => \E c \in Clients, data \in SignupData : SignupInsert(c, data)]_vars

C7_Witness ==
    /\ Cardinality(created) = 2
    /\ \E g \in created : Len(utf8[g.password]) > BcryptMaxLen
    /\ ev.ep = "logout"

\* C8 (as claimed): no request ends in an exception that leaves its handler:
\* every response is a JSON message with a status of the taxonomy.
C8_EveryErrorCaught ==
    ev # NoEvent => ev.body # "html" /\ ev.status \in {200, 400, 401, 409, 500}

\* C9: a session holds a user only while its client is logged in by a
\* successful /signup or /login with no /logout since, the user is the email
\* of that request and has a row; a request that fails changes no session.
C9_SessionOnlyByLogin ==
    /\ [](\A c \in Clients :
             InSession(session[c])
             => /\ auth[c] = session[c].user
                /\ Stored(users, session[c].user))
    /\ [][ev'.status # 200 => session' = session]_vars

C9_Witness ==
    /\ InSession(session[1]) /\ session[1].user = <<98>>
    /\ InSession(session[2]) /\ session[2].user = <<97>>
    /\ ev = Response("login", 401, "message", "none")

\* C10: the row is committed before the welcome mail is sent: a failed
\* delivery answers 500 and starts no session, the row stays, and from then
\* on the same /signup is answered 409 and a /login with the same email and
\* password succeeds.
C10_RecordSurvivesMailFailure ==
    /\ [][\A c \in Clients :
             SignupMail(c, FALSE)
             => /\ ev' = Response("signup", 500, "message", "failed")
                /\ session' = session
                /\ users' = users
                /\ Stored(users', inflight[c].email)]_vars
    /\ [](\A g \in created :
             /\ \A name \in Names, salt \in Salts :
                    signup_insert(users, [name |-> name, email |-> g.email,
                                          password |-> g.password], salt).response
                        = Response("signup", 409, "message", "none")
             /\ login(users, g) =
                    [response |-> Response("login", 200, "message", "none"),
                     user |-> g.email])

C10_Witness ==
    /\ ev = Response("signup", 500, "message", "failed")
    /\ Cardinality(users) = 1
    /\ \A c \in Clients : ~InSession(session[c]) /\ inflight[c].pc = "idle"

====
